---- MODULE Spec2Model ----
(***************************************************************************)
(* FAQ extraction pipeline of commonscrape.FAQExtractor (crawl, LLM call,  *)
(* brace-pattern candidate extraction, per-candidate JSON parse, append to *)
(* the parallel-list table), its callers (extract_faqs, the Streamlit and  *)
(* command-line front ends), and the two pure routines the pipeline rests  *)
(* on: the brace pattern and the field-default filling.                    *)
(***************************************************************************)
EXTENDS Integers, Sequences, FiniteSets, TLC

\* ------------------------------------------------------------------ bounds
\* longest list of URLs handed to extract_faqs
MaxUrls == 2
\* most candidates the brace pattern isolates in one LLM response
MaxCands == 2
\* process_single_url calls made on one extractor through the class API
MaxCalls == 3
\* longest response text the brace pattern is applied to
MaxLen == 8
\* most keys of a parsed object handed to _process_faq_data on its own
MaxKeys == 2
\* extractions started in one session of the Streamlit app
MaxRuns == 2

\* ------------------------------------------------------- values and inputs
URLS == {"u1", "u2"}
None == "None"
EmptyStr == ""
Markdown == "markdown"
NoCount == 0 - 1

Range(s) == {s[n] : n \in 1..Len(s)}

Min(a, b) == IF a < b THEN a ELSE b

\* Python truthiness of a crawl result: None and "" are false
Truthy(v) == v \notin {None, EmptyStr}

\* Optional[int]: None is the empty sequence, an integer n is <<n>>
NoneInt == <<>>

\* Python truthiness of an Optional[int]: None and 0 are false
TruthyInt(m) == m # NoneInt /\ m[1] # 0

\* the candidate substrings of the sample responses: the k-th candidate of a
\* response is either text that is no JSON, or the k-th sample object
BadText == "{not json}"
GoodText == <<"{q1 all fields and id}", "{q2 question and null answer}",
              "{q3 all fields and id}", "{q4 question and null answer}">>

SampleObject(k) ==
    IF k % 2 = 1
    THEN [organisation_name |-> "org", category |-> "cat",
          question |-> <<"q1", "q2", "q3", "q4">>[k],
          answer |-> EmptyStr, links |-> "l", id |-> "x"]
    ELSE [question |-> <<"q1", "q2", "q3", "q4">>[k], answer |-> None]

CandidateAt(k) == {BadText, GoodText[k]}

\* the candidates of an LLM response, in their order of appearance
CandidateSeqs ==
    UNION {{r \in [1..n -> {BadText} \cup Range(GoodText)] :
                \A k \in 1..n : r[k] \in CandidateAt(k)} : n \in 0..MaxCands}

\* text of a response between the brace groups
Prose == "prose"

RECURSIVE Interleave(_)
\* the content of a response: prose, then each candidate followed by prose
Interleave(cs) == IF cs = <<>> THEN <<Prose>> ELSE <<Prose, Head(cs)>> \o Interleave(Tail(cs))

ResponseContents == {Interleave(cs) : cs \in CandidateSeqs}

UrlLists == UNION {[1..n -> URLS] : n \in 0..MaxUrls}

\* json.loads on a candidate: a candidate always starts with '{', so what
\* parses is an object; anything else raises json.JSONDecodeError
Parses(text) == text \in Range(GoodText)

JsonLoads(text) == SampleObject(CHOOSE k \in 1..Len(GoodText) : GoodText[k] = text)

\* ------------------------------------------------------------------- state
VARIABLES
    data_dict,      \* FAQExtractor.data_dict: six parallel lists
    notcollected,   \* FAQExtractor.notcollected
    pc,             \* where the running call stands
    caller,         \* "api", "streamlit" or "cli": who called extract_faqs
    kind,           \* "str", "list" (extract_faqs) or "direct" (process_single_url)
    arg_urls,       \* the urls argument of the running extract_faqs call
    arg_max,        \* its max_urls argument
    urls,           \* the list extract_faqs iterates over, after truncation
    i,              \* how many elements of urls the for loop has taken
    calls,          \* the URLs process_single_url was called with in this run
    used,           \* process_single_url calls made on this extractor
    url,            \* the argument of the running process_single_url call
    attempts,       \* runs of the body of _crawl_website in that call
    context,        \* what _crawl_website returned
    answer,         \* the content of the LLM's response, in segments
    json_obj,       \* what _extract_json_from_response returned
    k,              \* how many candidates the parse loop has taken
    log,            \* the steps of the running process_single_url call
    ret,            \* what the last process_single_url call returned
    reported,       \* N of "Processed N URLs", NoCount when none was shown
    obj_in,         \* a parsed object handed to _process_faq_data on its own
    response_content, \* a response text, one character per element
    matches,        \* what re.findall returned on response_content
    files,          \* the CSV files on disk: for each name, what it holds
    at,             \* file.py: where the running call stands
    entry,          \* file.py: the method called, process_url or extract_faqs
    crawled,        \* file.py: what crawl_website returned
    response,       \* file.py: what llm.invoke did
    candidates,     \* file.py: what re.findall returned on the response
    extracted_data, \* file.py: the objects the loop has collected
    faqs,           \* file.py: what extract_faqs returned
    success,        \* file.py: what process_url returned
    json_file,      \* file.py: what the output file holds
    steps,          \* file.py: the steps of the running call
    results_df,     \* st.session_state.results_df
    missed_urls,    \* st.session_state.missed_urls
    extraction_complete, \* st.session_state.extraction_complete
    bucket,         \* the object the latest run put in the GCP bucket, if any
    button,         \* the button clicked for the latest run of the script, if any
    input_urls,     \* the value of urls in that run, after lines 79-97
    firecrawl_api_key, \* the text of the Firecrawl key input in that run
    google_api_key, \* the text of the Google key input in that run
    custom_filename, \* the text of the filename input in that run
    warning,        \* whether that run showed the warning of line 132
    started,        \* whether that run started an extraction
    uploaded,       \* whether that run uploaded the file (line 207)
    runs            \* extractions started in this session

vars == <<data_dict, notcollected, pc, caller, kind, arg_urls, arg_max, urls, i,
          calls, used, url, attempts, context, answer, json_obj, k, log, ret,
          reported, obj_in, response_content, matches, files, at, entry,
          crawled, response, candidates, extracted_data, faqs, success,
          json_file, steps, results_df, missed_urls, extraction_complete,
          bucket, button, input_urls, firecrawl_api_key, google_api_key,
          custom_filename, warning, started, uploaded, runs>>

extractor == <<data_dict, notcollected>>
run == <<caller, kind, arg_urls, arg_max, urls, calls>>
call == <<url, attempts, context, answer, json_obj, k, log>>
pure == <<obj_in, response_content, matches>>
filepy == <<at, entry, crawled, response, candidates, extracted_data, faqs,
            success, json_file, steps>>
session == <<results_df, missed_urls, extraction_complete>>
widgets == <<button, input_urls, firecrawl_api_key, google_api_key,
             custom_filename, warning, started, uploaded>>
\* the extractor of commonscrape and its running call
pipeline == <<extractor, pc, run, i, used, call, ret, reported>>
\* what no step of commonscrape.FAQExtractor touches
beside == <<filepy, session, widgets, bucket, runs>>

\* ------------------------------------------------------- files and session
\* a file name, piece by piece: the stem, then each extension
CsvSuffix == ".csv"

\* commonscrape line 315: the default of save_to_csv
SaveToCsvDefault == <<"extracted_duplicate_links23", CsvSuffix>>

\* gcpapp line 178: the default of the filename input
FilenameDefault == <<"extracted_faqs", CsvSuffix>>

\* what the user may leave or type in the filename input
FilenameTexts == {FilenameDefault, <<"extracted_faqs">>}

\* gcpapp lines 179-180: str.endswith('.csv'), else the suffix is added
WithCsvSuffix(name) ==
    IF name # <<>> /\ name[Len(name)] = CsvSuffix THEN name
    ELSE Append(name, CsvSuffix)

FileNames == {SaveToCsvDefault} \cup {WithCsvSuffix(t) : t \in FilenameTexts}

\* no file of that name, no DataFrame in the session, no object in the bucket
Absent == <<>>

\* pd.DataFrame(data_dict), and what to_csv writes of it: the table itself
DataFrame(dd) == <<dd>>

\* gcpapp lines 79, 83-84, 92: urls is None, a string or a list
UrlsNone == [form |-> "none", list |-> <<>>]
UrlsStr(u) == [form |-> "str", list |-> <<u>>]
UrlsList(us) == [form |-> "list", list |-> us]

InitFiles == files = [name \in FileNames |-> Absent]

\* file.py: nothing called yet, no output file
InitFilePy ==
    /\ at = "idle"
    /\ entry = "process_url"
    /\ crawled = None
    /\ response = <<>>
    /\ candidates = <<>>
    /\ extracted_data = <<>>
    /\ faqs = Absent
    /\ success = FALSE
    /\ json_file = Absent
    /\ steps = <<>>

\* gcpapp line 82: the URL the text input starts with
UrlDefault == "u1"

\* gcpapp lines 55-64 and the first run of the script, on opening the page:
\* the default URL, no key yet, and so the warning of line 132
InitSession ==
    /\ results_df = Absent
    /\ missed_urls = <<>>
    /\ extraction_complete = FALSE
    /\ bucket = Absent
    /\ button = "none"
    /\ input_urls = UrlsStr(UrlDefault)
    /\ firecrawl_api_key = EmptyStr
    /\ google_api_key = EmptyStr
    /\ custom_filename = FilenameDefault
    /\ warning = TRUE
    /\ started = FALSE
    /\ uploaded = FALSE
    /\ runs = 0

\* ------------------------------------------------------------ the table
FieldNames == <<"organisation_name", "category", "question", "answer", "links">>
NotAvailable == "Not available"

_initialize_data_dict ==
    [organisation_name |-> <<>>, category |-> <<>>, question |-> <<>>,
     answer |-> <<>>, links |-> <<>>, URL |-> <<>>]

\* the slip of `if not json_obj.get(field)`: empty and null count as absent
FillDefaultsWhenFalsy(obj) ==
    [f \in DOMAIN obj \cup Range(FieldNames) |->
        IF f \notin DOMAIN obj \/ ~Truthy(obj[f]) THEN NotAvailable ELSE obj[f]]

\* lines 203-205: every expected field the object lacks gets the sentinel
FillDefaults(obj) ==
    [f \in DOMAIN obj \cup Range(FieldNames) |->
        IF f \notin DOMAIN obj THEN NotAvailable ELSE obj[f]]

\* the slip of forgetting the source URL of a row
ProcessFaqDataWithoutUrl(dd, obj, u) ==
    LET filled == FillDefaults(obj)
    IN [organisation_name |-> Append(dd.organisation_name, filled["organisation_name"]),
        category |-> Append(dd.category, filled["category"]),
        question |-> Append(dd.question, filled["question"]),
        answer |-> Append(dd.answer, filled["answer"]),
        links |-> Append(dd.links, filled["links"]),
        URL |-> dd.URL]

\* the slip of putting a new row first
ProcessFaqDataAtFront(dd, obj, u) ==
    LET filled == FillDefaults(obj)
    IN [organisation_name |-> <<filled["organisation_name"]>> \o dd.organisation_name,
        category |-> <<filled["category"]>> \o dd.category,
        question |-> <<filled["question"]>> \o dd.question,
        answer |-> <<filled["answer"]>> \o dd.answer,
        links |-> <<filled["links"]>> \o dd.links,
        URL |-> <<u>> \o dd.URL]

_process_faq_data(dd, obj, u) ==
    LET filled == FillDefaults(obj)
    IN [organisation_name |-> Append(dd.organisation_name, filled["organisation_name"]),
        category |-> Append(dd.category, filled["category"]),
        question |-> Append(dd.question, filled["question"]),
        answer |-> Append(dd.answer, filled["answer"]),
        links |-> Append(dd.links, filled["links"]),
        URL |-> Append(dd.URL, u)]

\* list.index: the first position holding u
Index(s, u) == CHOOSE n \in 1..Len(s) : s[n] = u /\ \A m \in 1..(n - 1) : s[m] # u

\* a returned dictionary is the set of its <<key, value>> pairs; {} is empty
_get_url_data(dd, u) ==
    IF u \notin Range(dd.URL) THEN {}
    ELSE LET idx == Index(dd.URL, u)
         IN {<<"organisation_name", dd.organisation_name[idx]>>,
             <<"category", dd.category[idx]>>,
             <<"question", dd.question[idx]>>,
             <<"answer", dd.answer[idx]>>,
             <<"links", dd.links[idx]>>,
             <<"URL", u>>}

\* ----------------------------------------------------------- extract_faqs
\* the slip of urls[:max_urls - 1]
TruncateOneShort(us, m) ==
    IF TruthyInt(m) THEN SubSeq(us, 1, Min(m[1] - 1, Len(us))) ELSE us

\* lines 305-306: a truthy max_urls cuts the list, None and 0 leave it whole
Truncate(us, m) == IF TruthyInt(m) THEN SubSeq(us, 1, Min(m[1], Len(us))) ELSE us

\* gcpapp lines 101-103: the number input, 0 meaning no limit
MaxUrlsFromUI(n) == IF n = 0 THEN NoneInt ELSE <<n>>

MaxUrlsArgs == {NoneInt} \cup {<<n>> : n \in 1..MaxUrls}

\* where a process_single_url call returns to: extract_faqs' for loop, or out
AfterReturn == IF kind = "list" THEN "for" ELSE "returned"

\* no call is running and the caller is through with the last one; the
\* process of commonscrape.main ends with main (lines 396-397)
Idle ==
    \/ pc = "idle"
    \/ pc = "done" /\ caller # "cli"
    \/ pc = "returned" /\ caller = "api"

\* process_single_url(u) is entered: line 224
EnterCall(u) ==
    /\ url' = u
    /\ attempts' = 0
    /\ context' = None
    /\ answer' = <<>>
    /\ json_obj' = <<>>
    /\ k' = 0
    /\ log' = <<>>
    /\ pc' = "entered"

NoCall ==
    /\ url' = None
    /\ attempts' = 0
    /\ context' = None
    /\ answer' = <<>>
    /\ json_obj' = <<>>
    /\ k' = 0
    /\ log' = <<>>

StartRun(who, knd, us, m) ==
    /\ caller' = who
    /\ kind' = knd
    /\ arg_urls' = us
    /\ arg_max' = m
    /\ reported' = NoCount
    /\ ret' = {}
    /\ i' = 0

\* extract_faqs(u, max_urls) with a string: lines 300-302, up to the call
ExtractFaqsStr(who, u, m) ==
    /\ StartRun(who, "str", <<u>>, m)
    /\ urls' = <<u>>
    /\ calls' = <<u>>
    /\ EnterCall(u)

\* extract_faqs(us, max_urls) with a list: lines 305-308, up to the loop
ExtractFaqsList(who, us, m) ==
    /\ StartRun(who, "list", us, m)
    /\ urls' = Truncate(us, m)
    /\ calls' = <<>>
    /\ NoCall
    /\ pc' = "for"

\* FAQExtractor(...): lines 41-52
NewExtractor ==
    /\ data_dict' = _initialize_data_dict
    /\ notcollected' = <<>>

\* ------------------------------------------------ calls through the class
ApiExtractFaqsStr ==
    \E u \in URLS, m \in MaxUrlsArgs :
        /\ Idle
        /\ UNCHANGED <<pure, files, beside>>
        /\ used < MaxCalls
        /\ used' = used + 1
        /\ ExtractFaqsStr("api", u, m)
        /\ UNCHANGED extractor

ApiExtractFaqsList ==
    \E us \in UrlLists, m \in MaxUrlsArgs :
        /\ Idle
        /\ UNCHANGED <<pure, files, beside>>
        /\ used + Len(Truncate(us, m)) <= MaxCalls
        /\ used' = used + Len(Truncate(us, m))
        /\ ExtractFaqsList("api", us, m)
        /\ UNCHANGED extractor

ApiProcessSingleUrl ==
    \E u \in URLS :
        /\ Idle
        /\ UNCHANGED <<pure, files, beside>>
        /\ used < MaxCalls
        /\ used' = used + 1
        /\ StartRun("api", "direct", <<u>>, NoneInt)
        /\ urls' = <<u>>
        /\ calls' = <<u>>
        /\ EnterCall(u)
        /\ UNCHANGED extractor

\* ------------------------------------------------------------ front ends
\* gcpapp lines 106-117: the button with every input given; a new extractor
StreamlitExtractStr ==
    \E u \in URLS, n \in 0..MaxUrls :
        /\ Idle
        /\ UNCHANGED <<pure, files, beside>>
        /\ NewExtractor
        /\ used' = 1
        /\ ExtractFaqsStr("streamlit", u, MaxUrlsFromUI(n))

StreamlitExtractList ==
    \E us \in UrlLists \ {<<>>}, n \in 0..MaxUrls :
        /\ Idle
        /\ UNCHANGED <<pure, files, beside>>
        /\ NewExtractor
        /\ used' = Len(Truncate(us, MaxUrlsFromUI(n)))
        /\ ExtractFaqsList("streamlit", us, MaxUrlsFromUI(n))

\* commonscrape.main lines 358-380: a new extractor, max_urls=None
CliMainStr ==
    \E u \in URLS :
        /\ Idle
        /\ UNCHANGED <<pure, files, beside>>
        /\ NewExtractor
        /\ used' = 1
        /\ ExtractFaqsStr("cli", u, NoneInt)

CliMainList ==
    \E us \in UrlLists :
        /\ Idle
        /\ UNCHANGED <<pure, files, beside>>
        /\ NewExtractor
        /\ used' = Len(us)
        /\ ExtractFaqsList("cli", us, NoneInt)

\* --------------------------------------------------- extract_faqs' loop
\* the slip of walking the list from its end
NextElementFromEnd(us, n) == us[Len(us) - n]

\* line 309: enumerate(urls) hands out the elements from the first on
NextElement(us, n) == us[n + 1]

\* lines 309-313: the next element, or return self.data_dict
ForNext ==
    /\ pc = "for"
    /\ UNCHANGED <<pure, files, beside>>
    /\ IF i < Len(urls)
       THEN /\ i' = i + 1
            /\ calls' = Append(calls, NextElement(urls, i))
            /\ EnterCall(NextElement(urls, i))
       ELSE /\ pc' = "returned"
            /\ UNCHANGED <<i, calls, call>>
    /\ UNCHANGED <<extractor, caller, kind, arg_urls, arg_max, urls, used, ret,
                   reported>>

\* ---------------------------------------------------- process_single_url
StopAfterAttempt == 3

\* the slip of leaving the except clause out: the exception leaves the call,
\* and extract_faqs with it
ExceptionPropagates == "raised"

\* lines 261-263: `except Exception` ends the call, which returns {}
ExceptionCaught == AfterReturn

\* the slip of leaving the check out
AlreadyProcessedNever(dd, u) == FALSE

\* lines 227-229: a URL the table already holds is not processed again
AlreadyProcessed(dd, u) == u \in Range(dd.URL)

\* the slip of testing for None only
ContentMissingOnlyNone(c) == c = None

\* line 234: `if not context`
ContentMissing(c) == ~Truthy(c)

\* lines 104-121, the body of _crawl_website on one outcome of crawl_url and
\* of the indexing of its result: the except clause turns every exception
\* into a logged miss and a None result, so the body itself never raises
CrawlBody(outcome) ==
    [raised |-> FALSE,
     value  |-> IF outcome = "raise" THEN None ELSE outcome,
     missed |-> outcome = "raise"]

\* lines 89-93: tenacity runs the body again only when it raised, while
\* fewer than stop_after_attempt runs were made
RetryWanted(body, n) == body.raised /\ n < StopAfterAttempt

EnterProcessSingleUrl ==
    /\ pc = "entered"
    /\ UNCHANGED <<pure, files, beside>>
    /\ IF AlreadyProcessed(data_dict, url)
       THEN /\ ret' = _get_url_data(data_dict, url)
            /\ pc' = AfterReturn
       ELSE /\ pc' = "crawl"
            /\ UNCHANGED ret
    /\ UNCHANGED <<extractor, run, i, used, call, reported>>

CrawlWebsite ==
    \E outcome \in {"raise", None, EmptyStr, Markdown} :
        LET body == CrawlBody(outcome)
            n == attempts + 1
        IN /\ pc = "crawl"
           /\ UNCHANGED <<pure, files, beside>>
           /\ attempts' = n
           /\ log' = log \o (IF body.missed THEN <<"crawl", "crawl_error">>
                             ELSE <<"crawl">>)
           /\ notcollected' = IF body.missed THEN Append(notcollected, url)
                              ELSE notcollected
           /\ IF RetryWanted(body, n)
              THEN /\ pc' = "crawl"
                   /\ UNCHANGED <<context, ret>>
              ELSE IF body.raised
              THEN \* reraise=True: caught at lines 261-263
                   /\ pc' = ExceptionCaught
                   /\ ret' = {}
                   /\ UNCHANGED context
              ELSE /\ context' = body.value
                   /\ IF ContentMissing(body.value)
                      THEN /\ pc' = AfterReturn
                           /\ ret' = {}
                      ELSE /\ pc' = "llm"
                           /\ UNCHANGED ret
           /\ UNCHANGED <<data_dict, run, i, used, url, answer, json_obj, k,
                          reported>>

\* line 242: self.llm.invoke(template) raises or answers
LlmInvoke ==
    \E r \in {<<"raise">>} \cup ResponseContents :
        /\ pc = "llm"
        /\ UNCHANGED <<pure, files, beside>>
        /\ log' = log \o (IF r = <<"raise">> THEN <<"llm", "llm_error">> ELSE <<"llm">>)
        /\ IF r = <<"raise">>
           THEN /\ pc' = ExceptionCaught
                /\ ret' = {}
                /\ UNCHANGED answer
           ELSE /\ pc' = "extract"
                /\ answer' = r
                /\ UNCHANGED ret
        /\ UNCHANGED <<extractor, run, i, used, url, attempts, context, json_obj,
                       k, reported>>

\* re.findall on the response: the brace groups, without the text around them
FindAll(content) == SelectSeq(content, LAMBDA seg : seg # Prose)

\* lines 185-193: the matches, or {} when there is none (ValueError, caught);
\* the caller only iterates over the result, and {} yields nothing
_extract_json_from_response(content) ==
    LET found == FindAll(content)
    IN IF found = <<>> THEN <<>> ELSE found

ExtractJson ==
    /\ pc = "extract"
    /\ UNCHANGED <<pure, files, beside>>
    /\ json_obj' = _extract_json_from_response(answer)
    /\ k' = 0
    /\ log' = Append(log, "extract")
    /\ pc' = "parse"
    /\ UNCHANGED <<extractor, run, i, used, url, attempts, context, answer, ret,
                   reported>>

\* lines 248-254: one turn of the loop over the candidates
ParseCandidate ==
    /\ pc = "parse"
    /\ UNCHANGED <<pure, files, beside>>
    /\ k < Len(json_obj)
    /\ IF Parses(json_obj[k + 1])
       THEN /\ data_dict' = _process_faq_data(data_dict, JsonLoads(json_obj[k + 1]), url)
            /\ log' = log \o <<"parse", "append">>
            /\ k' = k + 1
            /\ UNCHANGED <<pc, ret>>
       ELSE \* json.JSONDecodeError, raised again: caught at lines 261-263
            /\ log' = log \o <<"parse", "parse_error">>
            /\ pc' = ExceptionCaught
            /\ ret' = {}
            /\ UNCHANGED <<data_dict, k>>
    /\ UNCHANGED <<notcollected, run, i, used, url, attempts, context, answer,
                   json_obj, reported>>

\* lines 257-259: the loop is over
ReturnUrlData ==
    /\ pc = "parse"
    /\ UNCHANGED <<pure, files, beside>>
    /\ k = Len(json_obj)
    /\ ret' = _get_url_data(data_dict, url)
    /\ pc' = AfterReturn
    /\ UNCHANGED <<extractor, run, i, used, call, reported>>

\* ------------------------------------------------- the completion message
\* gcpapp line 127: len(results['URL'])
StreamlitProcessedCount(results) == Len(results.URL)

\* commonscrape lines 386-389: no count for a single URL
CliProcessedCount(results, knd) == IF knd = "str" THEN NoCount ELSE Len(results.URL)

\* lines 322-327: the table goes to the file, unless pandas or the write
\* raised, which the except clause logs
save_to_csv(fs, dd, filename, io) ==
    IF io = "ok" THEN [fs EXCEPT ![filename] = DataFrame(dd)] ELSE fs

\* gcpapp lines 119-127, and commonscrape lines 384-389, where main saves the
\* table under the default name before it logs the count
ReportCompletion ==
    \E io \in {"ok", "raise"} :
        /\ pc = "returned"
        /\ UNCHANGED <<pure, beside>>
        /\ caller # "api"
        /\ IF caller = "cli"
           THEN files' = save_to_csv(files, data_dict, SaveToCsvDefault, io)
           ELSE io = "ok" /\ UNCHANGED files
        /\ reported' = IF caller = "streamlit" THEN StreamlitProcessedCount(data_dict)
                       ELSE CliProcessedCount(data_dict, kind)
        /\ pc' = "done"
        /\ UNCHANGED <<extractor, run, i, used, call, ret>>

\* ------------------------------------------- the other calls of the class
\* _get_url_data(u), called on its own between two runs
ApiGetUrlData ==
    \E u \in URLS :
        /\ Idle
        /\ ret' = _get_url_data(data_dict, u)
        /\ pc' = "idle"
        /\ NoCall
        /\ UNCHANGED <<extractor, run, i, used, reported, pure, files, beside>>

\* save_to_csv(), called on its own between two runs
ApiSaveToCsv ==
    \E io \in {"ok", "raise"} :
        /\ Idle
        /\ files' = save_to_csv(files, data_dict, SaveToCsvDefault, io)
        /\ UNCHANGED <<pipeline, pure, beside>>

\* ------------------------------------------------------------ the pipeline
InitPipeline ==
    /\ data_dict = _initialize_data_dict
    /\ notcollected = <<>>
    /\ pc = "idle"
    /\ caller = "api"
    /\ kind = "direct"
    /\ arg_urls = <<>>
    /\ arg_max = NoneInt
    /\ urls = <<>>
    /\ i = 0
    /\ calls = <<>>
    /\ used = 0
    /\ url = None
    /\ attempts = 0
    /\ context = None
    /\ answer = <<>>
    /\ json_obj = <<>>
    /\ k = 0
    /\ log = <<>>
    /\ ret = {}
    /\ reported = NoCount
    /\ InitFiles
    /\ InitFilePy
    /\ InitSession

Init ==
    /\ InitPipeline
    /\ obj_in = <<>>
    /\ response_content = <<>>
    /\ matches = <<>>

Next ==
    \/ ApiExtractFaqsStr
    \/ ApiExtractFaqsList
    \/ ApiProcessSingleUrl
    \/ StreamlitExtractStr
    \/ StreamlitExtractList
    \/ CliMainStr
    \/ CliMainList
    \/ ForNext
    \/ EnterProcessSingleUrl
    \/ CrawlWebsite
    \/ LlmInvoke
    \/ ExtractJson
    \/ ParseCandidate
    \/ ReturnUrlData
    \/ ReportCompletion

Spec == Init /\ [][Next]_vars

\* the class on its own: one extractor, called through its methods
NextClass ==
    \/ ApiExtractFaqsStr
    \/ ApiExtractFaqsList
    \/ ApiProcessSingleUrl
    \/ ApiGetUrlData
    \/ ApiSaveToCsv
    \/ ForNext
    \/ EnterProcessSingleUrl
    \/ CrawlWebsite
    \/ LlmInvoke
    \/ ExtractJson
    \/ ParseCandidate
    \/ ReturnUrlData

SpecClass == Init /\ [][NextClass]_vars

\* ------------------------------------- _process_faq_data on varied objects
FieldValues == {"v", EmptyStr, None}

\* parsed objects of at most MaxKeys expected fields, each holding a text, an
\* empty text or null, with or without a key outside the expected fields
ObjectInputs ==
    LET plain == UNION {[D -> FieldValues] :
                          D \in {E \in SUBSET Range(FieldNames) : Cardinality(E) <= MaxKeys}}
    IN plain \cup {[key \in DOMAIN o \cup {"id"} |-> IF key = "id" THEN "x" ELSE o[key]] :
                      o \in plain}

InitFields ==
    /\ InitPipeline
    /\ obj_in \in ObjectInputs
    /\ response_content = <<>>
    /\ matches = <<>>

PickUrl ==
    \E u \in URLS :
        /\ pc = "idle"
        /\ url' = u
        /\ pc' = "picked"
        /\ UNCHANGED <<extractor, run, i, used, attempts, context, answer, json_obj,
                       k, log, ret, reported, pure, files, beside>>

ApplyProcessFaqData ==
    /\ pc = "picked"
    /\ data_dict' = _process_faq_data(data_dict, obj_in, url)
    /\ pc' = "applied"
    /\ UNCHANGED <<notcollected, run, i, used, call, ret, reported, pure, files,
                   beside>>

NextFields == PickUrl \/ ApplyProcessFaqData

SpecFields == InitFields /\ [][NextFields]_vars

\* ------------------------------------------------- the brace pattern
\* a response text over '{', '}' and one character that is neither
Alphabet == {"{", "}", "x"}
Texts == UNION {[1..n -> Alphabet] : n \in 0..MaxLen}

\* Each operator gives the positions just after the matches of a part of the
\* pattern that start at position p, in the order a backtracking matcher
\* tries them; the matcher takes the first with which the rest matches.

\* [^{}]
ClassEnds(s, p) ==
    IF p <= Len(s) /\ s[p] \notin {"{", "}"} THEN <<p + 1>> ELSE <<>>

RECURSIVE GroupEnds(_, _, _), StarEnds(_, _, _), StarAfter(_, _, _)

\* [^{}] | group of one level less; at the innermost level [^{}] alone
ItemEnds(s, level, p) ==
    ClassEnds(s, p) \o (IF level > 1 THEN GroupEnds(s, level - 1, p) ELSE <<>>)

\* (?: item )* greedy: one more item first, then none
StarEnds(s, level, p) == StarAfter(s, level, ItemEnds(s, level, p)) \o <<p>>

StarAfter(s, level, ends) ==
    IF ends = <<>> THEN <<>>
    ELSE StarEnds(s, level, Head(ends)) \o StarAfter(s, level, Tail(ends))

\* \{ (?: item )* \}
GroupEnds(s, level, p) ==
    IF p <= Len(s) /\ s[p] = "{"
    THEN LET closed == SelectSeq(StarEnds(s, level, p + 1),
                                 LAMBDA e : e <= Len(s) /\ s[e] = "}")
         IN [n \in 1..Len(closed) |-> closed[n] + 1]
    ELSE <<>>

\* the pattern with one level of nesting less
TwoLevelPatternEnds(s, p) == GroupEnds(s, 2, p)

\* json_pattern: three nested levels of \{ ... \}
JsonPatternEnds(s, p) == GroupEnds(s, 3, p)

RECURSIVE Scan(_, _)
\* re.findall: the leftmost match at or after p, then on from its end; the
\* pattern matches no empty text
Scan(s, p) ==
    IF p > Len(s) THEN <<>>
    ELSE LET ends == JsonPatternEnds(s, p)
         IN IF ends # <<>>
            THEN <<SubSeq(s, p, Head(ends) - 1)>> \o Scan(s, Head(ends))
            ELSE Scan(s, p + 1)

ReFindAll(s) == Scan(s, 1)

InitRegex ==
    /\ InitPipeline
    /\ obj_in = <<>>
    /\ response_content \in Texts
    /\ matches = <<>>

ApplyFindAll ==
    /\ pc = "idle"
    /\ matches' = ReFindAll(response_content)
    /\ pc' = "matched"
    /\ UNCHANGED <<extractor, run, i, used, call, ret, reported, obj_in,
                   response_content, files, beside>>

NextRegex == ApplyFindAll

SpecRegex == InitRegex /\ [][NextRegex]_vars

\* ------------------------------------------------- file.py: FAQExtractor
\* what no step of file.py touches
outside == <<extractor, pc, run, i, used, call, ret, reported, pure, files,
             session, widgets, bucket, runs>>

\* what crawl_url and the indexing of its result may do: raise, answer
\* without data, or answer with a markdown entry that is None, '' or a text
CrawlOutcomes == {"raise", "invalid", None, EmptyStr, Markdown}

\* lines 60-89: the markdown, or None for every failure
crawl_website(outcome) ==
    IF outcome \in {"raise", "invalid"} THEN None
    ELSE IF ~Truthy(outcome) THEN None
    ELSE outcome

\* what llm.invoke may do besides answering with a content: raise, answer
\* with a falsy object, answer with an object that has no content
LlmRaises == <<"raise">>
ResponseFalsy == <<"falsy">>
ResponseWithoutContent == <<"no content">>
LlmOutcomes == {LlmRaises, ResponseFalsy, ResponseWithoutContent} \cup ResponseContents

\* the slip of giving up on the first candidate that is no JSON
AfterCandidateDroppingAll(data, text) ==
    IF Parses(text) THEN Append(data, JsonLoads(text)) ELSE <<>>

\* lines 178-182: one turn of the loop; a JSONDecodeError is logged and the
\* candidate skipped
AfterCandidate(data, text) ==
    IF Parses(text) THEN Append(data, JsonLoads(text)) ELSE data

\* the slip of reporting success for a list that was not written
SaveToJsonAlwaysTrue(data, io) ==
    [ok |-> TRUE, written |-> data # <<>> /\ io = "ok"]

\* lines 202-213: nothing to save, or the write done, or the write failed
save_to_json(data, io) ==
    IF data = <<>> THEN [ok |-> FALSE, written |-> FALSE]
    ELSE IF io = "ok" THEN [ok |-> TRUE, written |-> TRUE]
    ELSE [ok |-> FALSE, written |-> FALSE]

FileIdle == at \in {"idle", "returned"}

FileCallStart ==
    /\ response' = <<>>
    /\ candidates' = <<>>
    /\ extracted_data' = <<>>
    /\ faqs' = Absent
    /\ success' = FALSE

\* process_url(url, output_file): line 226
CallProcessUrl ==
    /\ FileIdle
    /\ entry' = "process_url"
    /\ at' = "crawl"
    /\ crawled' = None
    /\ steps' = <<>>
    /\ FileCallStart
    /\ UNCHANGED <<json_file, outside>>

\* extract_faqs(context), called on its own
CallExtractFaqs ==
    \E c \in {None, EmptyStr, Markdown} :
        /\ FileIdle
        /\ entry' = "extract_faqs"
        /\ at' = "extract"
        /\ crawled' = c
        /\ steps' = <<>>
        /\ FileCallStart
        /\ UNCHANGED <<json_file, outside>>

\* lines 228-230: the crawl, and False without content
FileCrawlWebsite ==
    \E outcome \in CrawlOutcomes :
        /\ at = "crawl"
        /\ crawled' = crawl_website(outcome)
        /\ steps' = Append(steps, "crawl")
        /\ at' = IF ~Truthy(crawl_website(outcome)) THEN "returned" ELSE "extract"
        /\ UNCHANGED <<entry, response, candidates, extracted_data, faqs, success,
                       json_file, outside>>

\* extract_faqs returns f; lines 233-235: process_url goes on with a list only
ReturnFaqs(f) ==
    /\ faqs' = f
    /\ at' = IF entry = "process_url" /\ f # Absent THEN "save" ELSE "returned"

\* lines 154-156: no LLM call on an empty context
EnterExtractFaqs ==
    /\ at = "extract"
    /\ steps' = Append(steps, "extract")
    /\ IF ~Truthy(crawled) THEN ReturnFaqs(Absent)
       ELSE at' = "llm" /\ UNCHANGED faqs
    /\ UNCHANGED <<entry, crawled, response, candidates, extracted_data, success,
                   json_file, outside>>

\* lines 160-173: the LLM call, the check of its answer and re.findall
FileLlmInvoke ==
    \E r \in LlmOutcomes :
        /\ at = "llm"
        /\ response' = r
        /\ steps' = Append(steps, "llm")
        /\ IF r \in {LlmRaises, ResponseFalsy, ResponseWithoutContent}
           THEN ReturnFaqs(Absent) /\ UNCHANGED candidates
           ELSE /\ candidates' = FindAll(r)
                /\ IF FindAll(r) = <<>> THEN ReturnFaqs(<<<<>>>>)
                   ELSE at' = "loop" /\ UNCHANGED faqs
        /\ UNCHANGED <<entry, crawled, extracted_data, success, json_file, outside>>

\* lines 177-182: the next candidate
LoadCandidate ==
    /\ at = "loop"
    /\ candidates # <<>>
    /\ extracted_data' = AfterCandidate(extracted_data, Head(candidates))
    /\ candidates' = Tail(candidates)
    /\ steps' = Append(steps, "load")
    /\ UNCHANGED <<at, entry, crawled, response, faqs, success, json_file, outside>>

\* lines 184-185: the loop is over
ReturnExtracted ==
    /\ at = "loop"
    /\ candidates = <<>>
    /\ ReturnFaqs(<<extracted_data>>)
    /\ UNCHANGED <<entry, crawled, response, candidates, extracted_data, success,
                   json_file, steps, outside>>

\* line 238: save_to_json(faqs, output_file), whose result process_url returns
SaveToJson ==
    \E io \in {"ok", "raise"} :
        LET saved == save_to_json(faqs[1], io)
        IN /\ at = "save"
           /\ success' = saved.ok
           /\ json_file' = IF saved.written THEN <<faqs[1]>> ELSE json_file
           /\ steps' = steps \o (IF saved.written THEN <<"save", "write">>
                                  ELSE <<"save">>)
           /\ at' = "returned"
           /\ UNCHANGED <<entry, crawled, response, candidates, extracted_data,
                          faqs, outside>>

NextFile ==
    \/ CallProcessUrl
    \/ CallExtractFaqs
    \/ FileCrawlWebsite
    \/ EnterExtractFaqs
    \/ FileLlmInvoke
    \/ LoadCandidate
    \/ ReturnExtracted
    \/ SaveToJson

SpecFile == Init /\ [][NextFile]_vars

\* ------------------------------------------------ gcpapp.py: the session
\* Each action is one run of the script: Streamlit keeps the value of every
\* input between runs and runs the script again when an input is edited or a
\* button clicked; the clicked button alone reads True in that run.
InputOptions == {"Single URL", "CSV File Upload"}
UrlTexts == {EmptyStr, UrlDefault}
KeyTexts == {EmptyStr, "key"}

\* the Links or URL column of an uploaded table: no row, or two
UploadedColumns == {<<>>, <<"u1", "u2">>}

\* the file uploader: no file, a file pandas cannot read, a table without a
\* Links or URL column, or one with such a column
Uploads ==
    {[state |-> st, list |-> <<>>] : st \in {"none", "unreadable", "no column"}}
        \cup {[state |-> "column", list |-> us] : us \in UploadedColumns}

\* lines 79-97: urls, from the input method, the URL text and the upload
UrlsOf(option, text, upload) ==
    IF option = "Single URL"
    THEN IF text # EmptyStr THEN UrlsStr(text) ELSE UrlsNone
    ELSE IF upload.state = "column" THEN UrlsList(upload.list) ELSE UrlsNone

\* the truth value of urls at line 106: no None, no empty string, no empty list
UrlsTruthy(w) ==
    \/ w.form = "str" /\ w.list[1] # EmptyStr
    \/ w.form = "list" /\ w.list # <<>>

\* line 106: the condition of the extraction
ExtractionWanted(b, w, fk, gk) ==
    b = "extract" /\ UrlsTruthy(w) /\ fk # EmptyStr /\ gk # EmptyStr

\* lines 131-132: the elif of that condition
WarningShown(b, w, fk, gk) ==
    /\ ~ExtractionWanted(b, w, fk, gk)
    /\ (w = UrlsNone \/ fk = EmptyStr \/ gk = EmptyStr)

\* lines 72-132 of a run with button b clicked (or none) and these inputs
Sidebar(b, w, fk, gk) ==
    /\ button' = b
    /\ input_urls' = w
    /\ firecrawl_api_key' = fk
    /\ google_api_key' = gk
    /\ started' = ExtractionWanted(b, w, fk, gk)
    /\ warning' = WarningShown(b, w, fk, gk)

\* a run without a successful upload
NoUpload == bucket' = Absent /\ uploaded' = FALSE

\* no extraction is running: the script runs one at a time
UiIdle == pc \in {"idle", "done"}

\* line 175: the results section is shown
ResultsShown == extraction_complete /\ results_df # Absent

\* the input method, the URL text or the uploaded file is changed
EditUrls ==
    \E option \in InputOptions, text \in UrlTexts, upload \in Uploads :
        /\ UiIdle
        /\ Sidebar("none", UrlsOf(option, text, upload), firecrawl_api_key,
                   google_api_key)
        /\ NoUpload
        /\ UNCHANGED <<pipeline, pure, files, filepy, session, runs,
                       custom_filename>>

\* a key is typed or cleared
EditKeys ==
    \E fk \in KeyTexts, gk \in KeyTexts :
        /\ UiIdle
        /\ Sidebar("none", input_urls, fk, gk)
        /\ NoUpload
        /\ UNCHANGED <<pipeline, pure, files, filepy, session, runs,
                       custom_filename>>

\* line 178: the filename is typed, in the results section
EditFilename ==
    \E t \in FilenameTexts :
        /\ UiIdle
        /\ ResultsShown
        /\ Sidebar("none", input_urls, firecrawl_api_key, google_api_key)
        /\ custom_filename' = t
        /\ NoUpload
        /\ UNCHANGED <<pipeline, pure, files, filepy, session, runs>>

\* lines 106-117: 'Extract FAQs' is clicked; with every input given a new
\* extractor is made and extract_faqs called, else lines 131-132
ClickExtract ==
    \E n \in 0..MaxUrls :
        /\ UiIdle
        /\ Sidebar("extract", input_urls, firecrawl_api_key, google_api_key)
        /\ NoUpload
        /\ IF ExtractionWanted("extract", input_urls, firecrawl_api_key,
                               google_api_key)
           THEN /\ runs < MaxRuns
                /\ runs' = runs + 1
                /\ NewExtractor
                /\ IF input_urls.form = "str"
                   THEN /\ used' = 1
                        /\ ExtractFaqsStr("streamlit", input_urls.list[1],
                                          MaxUrlsFromUI(n))
                   ELSE /\ used' = Len(Truncate(input_urls.list, MaxUrlsFromUI(n)))
                        /\ ExtractFaqsList("streamlit", input_urls.list,
                                           MaxUrlsFromUI(n))
           ELSE /\ n = 0
                /\ UNCHANGED <<pipeline, runs>>
        /\ UNCHANGED <<pure, files, filepy, session, custom_filename>>

\* lines 119-127: extract_faqs has returned
StoreResults ==
    /\ pc = "returned"
    /\ caller = "streamlit"
    /\ results_df' = DataFrame(data_dict)
    /\ missed_urls' = notcollected
    /\ extraction_complete' = TRUE
    /\ reported' = StreamlitProcessedCount(data_dict)
    /\ pc' = "done"
    /\ UNCHANGED <<extractor, run, i, used, call, ret, pure, files, filepy,
                   widgets, bucket, runs>>

\* DataFrame.to_csv(name, index=False): the file holds the table, unless the
\* write raised
to_csv(fs, frame, name, io) ==
    IF io = "ok" THEN [fs EXCEPT ![name] = frame] ELSE fs

\* lines 190-194: 'Save CSV' is clicked
ClickSaveCsv ==
    \E io \in {"ok", "raise"} :
        /\ UiIdle
        /\ ResultsShown
        /\ Sidebar("save", input_urls, firecrawl_api_key, google_api_key)
        /\ NoUpload
        /\ files' = to_csv(files, results_df, WithCsvSuffix(custom_filename), io)
        /\ UNCHANGED <<pipeline, pure, filepy, session, runs, custom_filename>>

\* line 204: the name of the object in the bucket
DestinationBlobName(name) == <<"faq_extracts/">> \o name

\* lines 31-42: the file as it is on disk goes to the bucket, unless the
\* client raised
upload_to_gcp_bucket(fs, name, blob, outcome) ==
    [ok |-> outcome = "ok", object |-> <<[name |-> blob, content |-> fs[name]]>>]

\* lines 197-210: 'Upload to GCP' is clicked, the checkbox being ticked; the
\* file is written only when no file of that name exists, and a write that
\* raises ends the run before the upload
ClickUploadToGcp ==
    \E io \in {"ok", "raise"}, outcome \in {"ok", "raise"} :
        LET name == WithCsvSuffix(custom_filename)
            exists == files[name] # Absent
            written == IF exists THEN files ELSE to_csv(files, results_df, name, io)
            sent == upload_to_gcp_bucket(written, name, DestinationBlobName(name),
                                         outcome)
        IN /\ UiIdle
           /\ ResultsShown
           /\ exists => io = "ok"
           /\ Sidebar("upload", input_urls, firecrawl_api_key, google_api_key)
           /\ files' = written
           /\ IF (exists \/ io = "ok") /\ sent.ok
              THEN bucket' = sent.object /\ uploaded' = TRUE
              ELSE NoUpload
           /\ UNCHANGED <<pipeline, pure, filepy, session, runs, custom_filename>>

NextUI ==
    \/ EditUrls
    \/ EditKeys
    \/ EditFilename
    \/ ClickExtract
    \/ ClickSaveCsv
    \/ ClickUploadToGcp
    \/ ForNext
    \/ EnterProcessSingleUrl
    \/ CrawlWebsite
    \/ LlmInvoke
    \/ ExtractJson
    \/ ParseCandidate
    \/ ReturnUrlData
    \/ StoreResults

SpecUI == Init /\ [][NextUI]_vars

\* ================================================================ claims
\* a process_single_url call has returned and no other was entered since
CallOver == pc \in {"for", "returned", "done"} /\ url # None

Count(s, e) == Cardinality({n \in 1..Len(s) : s[n] = e})

Before(s, p, e) == \E q \in 1..(p - 1) : s[q] = e

ColumnNames == Range(FieldNames) \cup {"URL"}

\* row n of the table as a dictionary
RowAsDict(dd, n) == {<<c, dd[c][n]>> : c \in ColumnNames}

\* C1 (as claimed): when a call that reached the candidates returns, one row
\* was appended for every candidate of the response that parses, whether or
\* not another candidate of the response failed to parse, and wherever.
C1_EveryParsableCandidateStored ==
    (CallOver /\ "extract" \in Range(log))
        => Count(log, "append")
             = Cardinality({n \in 1..Len(json_obj) : Parses(json_obj[n])})

\* C2 (as claimed): a crawl is treated as failed by an exception only after
\* three attempts were made for the URL within the call.
C2_FailedCrawlTriedThreeTimes ==
    (CallOver /\ log # <<>> /\ log[Len(log)] = "crawl_error")
        => attempts = StopAfterAttempt

\* C3: the six columns of data_dict always have the same length, and the
\* rows the running (or last) call stored carry the URL handed to that call.
C3_ColumnsAligned ==
    /\ DOMAIN data_dict = ColumnNames
    /\ \A c \in ColumnNames : Len(data_dict[c]) = Len(data_dict.URL)
    /\ Count(log, "append") <= Len(data_dict.URL)
    /\ \A n \in 1..Len(data_dict.URL) :
          n > Len(data_dict.URL) - Count(log, "append") => data_dict.URL[n] = url

\* a failed call after rows of two different URLs were stored
C3_Witness ==
    /\ pc = "returned"
    /\ "parse_error" \in Range(log)
    /\ Cardinality(Range(data_dict.URL)) = 2
    /\ Len(data_dict.URL) >= 3

\* C6: within a call the steps come in the order crawl, LLM invocation,
\* candidate extraction, JSON parse, row append; the LLM is invoked only after
\* the crawl returned non-empty content, a row is appended only after the
\* crawl and the LLM invocation of the call completed, and with a None or
\* empty crawl result there is no LLM invocation and no row.
C6_PipelineOrder ==
    /\ \A p \in 1..Len(log) :
          /\ log[p] = "llm" => log[p - 1] = "crawl"
          /\ log[p] = "extract" => log[p - 1] = "llm"
          /\ log[p] = "parse" => Before(log, p, "extract")
          /\ log[p] = "append" => log[p - 1] = "parse" /\ Before(log, p, "llm")
          /\ log[p] = "crawl" => p = 1
    /\ "llm" \in Range(log) => context = Markdown
    /\ "append" \in Range(log)
          => context = Markdown /\ "llm_error" \notin Range(log)
                                /\ "crawl_error" \notin Range(log)
    /\ (pc \notin {"entered", "crawl"} /\ context \in {None, EmptyStr}
            /\ log # <<>>)
          => CallOver /\ ret = {} /\ Count(log, "append") = 0

\* a call that went through every step and stored two rows
C6_Witness == CallOver /\ Count(log, "append") = 2 /\ ret # {}

\* C7: a call on a URL the URL column already holds makes no crawl and no LLM
\* call, leaves data_dict and notcollected as they are and returns the
\* dictionary of a row stored for that URL.
C7_ProcessedUrlSkipped ==
    [][(pc = "entered" /\ url \in Range(data_dict.URL))
          => /\ data_dict' = data_dict
             /\ notcollected' = notcollected
             /\ log' = <<>> /\ attempts' = 0 /\ answer' = <<>>
             /\ pc' \in {"for", "returned"}
             /\ \E n \in 1..Len(data_dict.URL) :
                   data_dict.URL[n] = url /\ ret' = RowAsDict(data_dict, n)]_vars

\* extract_faqs on a string whose URL an earlier run had stored: skipped
C7_Witness ==
    /\ pc = "returned" /\ kind = "str" /\ url \in Range(data_dict.URL)
    /\ log = <<>> /\ ret # {} /\ used >= 2

\* the elements extract_faqs is to process, by the claim
C8_Expected ==
    IF kind = "list" /\ arg_max # NoneInt /\ arg_max[1] > 0
    THEN SubSeq(arg_urls, 1, Min(arg_max[1], Len(arg_urls)))
    ELSE arg_urls

\* C8: extract_faqs calls process_single_url on the first min(max_urls,
\* len(urls)) elements of a list, once each and in order; on all of them with
\* max_urls None, which is what the UI passes for 0; once on a string.
C8_CallsAreTruncatedList ==
    /\ pc \in {"returned", "done"} => calls = C8_Expected
    /\ pc \notin {"idle", "returned", "done"}
          => /\ Len(calls) <= Len(C8_Expected)
             /\ calls = SubSeq(C8_Expected, 1, Len(calls))
    /\ caller = "streamlit" => arg_max # <<0>>

\* a list cut short by max_urls
C8_Witness ==
    /\ pc = "returned" /\ kind = "list" /\ arg_max = <<1>>
    /\ Len(arg_urls) = 2 /\ calls = <<arg_urls[1]>>

\* C9 (as claimed): the dictionary a call returns covers every row stored
\* for its URL.
C9_ReturnCoversEveryRow ==
    (CallOver /\ ret # {})
        => \A n \in 1..Len(data_dict.URL) :
              data_dict.URL[n] = url => RowAsDict(data_dict, n) \subseteq ret

\* C10 (as claimed): the count of the completion message is the number of
\* URLs extract_faqs processed in the run.
C10_ReportedCountIsUrlCount ==
    (pc = "done" /\ reported # NoCount) => reported = Len(calls)

\* C4: _process_faq_data stores, for each of the five expected fields, the
\* sentinel when the object lacks the field and the object's own value when it
\* has it, an empty or null value included; no other key reaches the table.
C4_FieldsFilled ==
    pc = "applied"
        => /\ DOMAIN data_dict = ColumnNames
           /\ \A f \in Range(FieldNames) :
                 data_dict[f] = <<IF f \in DOMAIN obj_in THEN obj_in[f] ELSE NotAvailable>>
           /\ data_dict.URL = <<url>>
           /\ \A c \in ColumnNames : "x" \notin Range(data_dict[c])

\* an object with an empty question, a null answer, a key of its own and no
\* other field
C4_Witness ==
    /\ pc = "applied"
    /\ DOMAIN obj_in = {"question", "answer", "id"}
    /\ obj_in["question"] = EmptyStr
    /\ obj_in["answer"] = None
    /\ data_dict.question = <<EmptyStr>>
    /\ data_dict.links = <<NotAvailable>>

\* the number of '{' less the number of '}' among s[a..b]
Balance(s, a, b) ==
    Cardinality({n \in a..b : s[n] = "{"}) - Cardinality({n \in a..b : s[n] = "}"})

\* s[a..b] is a balanced group: b holds the '}' that closes the '{' at a
IsGroup(s, a, b) ==
    /\ a < b /\ b <= Len(s)
    /\ s[a] = "{" /\ s[b] = "}"
    /\ Balance(s, a, b) = 0
    /\ \A n \in a..(b - 1) : Balance(s, a, n) > 0

\* how deep the braces of s[a..b] nest
Depth(s, a, b) ==
    LET levels == {Balance(s, a, n) : n \in a..b}
    IN CHOOSE d \in levels : \A e \in levels : e <= d

RECURSIVE BalancedScan(_, _)
\* left to right, without overlap: the balanced groups of depth at most three
BalancedScan(s, p) ==
    IF p > Len(s) THEN <<>>
    ELSE IF \E b \in (p + 1)..Len(s) : IsGroup(s, p, b) /\ Depth(s, p, b) <= 3
    THEN LET b == CHOOSE c \in (p + 1)..Len(s) : IsGroup(s, p, c)
         IN <<SubSeq(s, p, b)>> \o BalancedScan(s, b + 1)
    ELSE BalancedScan(s, p + 1)

\* C5: the candidates the brace pattern isolates are exactly the balanced
\* groups of depth at most three that a left-to-right scan without overlap
\* finds; each starts with '{' and ends with its matching '}', and none nests
\* four levels or more.
C5_CandidatesAreBalancedGroups ==
    pc = "matched"
        => /\ matches = BalancedScan(response_content, 1)
           /\ \A n \in 1..Len(matches) :
                 /\ IsGroup(matches[n], 1, Len(matches[n]))
                 /\ Depth(matches[n], 1, Len(matches[n])) <= 3

\* a group four levels deep: only the group inside it is a candidate
C5_Witness ==
    /\ pc = "matched"
    /\ response_content = <<"{", "{", "{", "{", "}", "}", "}", "}">>
    /\ matches = <<SubSeq(response_content, 2, 7)>>

\* C11 (as claimed): once extract_faqs has returned, every URL it processed
\* that has no row in the table is listed in notcollected, whichever step of
\* the call failed.
C11_UnstoredUrlsListed ==
    (pc \in {"returned", "done"} /\ kind \in {"str", "list"})
        => \A u \in Range(calls) :
              u \notin Range(data_dict.URL) => u \in Range(notcollected)

\* C12: process_url of file.py never raises; it returns True exactly when the
\* crawl returned non-empty markdown, extract_faqs returned a list rather than
\* None and save_to_json wrote that list to the output file, and False in every
\* other case; no later step runs after an earlier one failed.
C12_TrueIffAllStepsSucceeded ==
    /\ "llm" \in Range(steps) => Truthy(crawled)
    /\ "save" \in Range(steps) => Truthy(crawled) /\ faqs # Absent
    /\ "write" \in Range(steps) => json_file = faqs
    /\ (at = "returned" /\ entry = "process_url")
          => /\ success <=> /\ crawled = Markdown
                            /\ faqs # Absent
                            /\ "write" \in Range(steps)
             /\ ~Truthy(crawled) => steps = <<"crawl">>
             /\ faqs = Absent => "save" \notin Range(steps)

\* process_url returned True on a response of two candidates, one of them no
\* JSON: the file holds the other one
C12_Witness ==
    /\ at = "returned" /\ entry = "process_url" /\ success
    /\ Len(FindAll(response)) = 2
    /\ Len(faqs[1]) = 1
    /\ json_file = faqs

RECURSIVE C13_ParsedOf(_)
\* the candidates of cs that are JSON, parsed, in the order of cs
C13_ParsedOf(cs) ==
    IF cs = <<>> THEN <<>>
    ELSE (IF Parses(Head(cs)) THEN <<JsonLoads(Head(cs))>> ELSE <<>>)
             \o C13_ParsedOf(Tail(cs))

\* C13: extract_faqs of file.py never raises; it returns None on an empty
\* context, when the LLM call raises and when the response has no content, the
\* empty list when the response holds no candidate, and otherwise the list of
\* exactly the candidates that parse as JSON, in response order, each
\* candidate that does not parse being skipped.
C13_ExtractFaqsResult ==
    ("extract" \in Range(steps) /\ at \in {"save", "returned"})
        => IF ~Truthy(crawled)
           THEN faqs = Absent /\ "llm" \notin Range(steps)
           ELSE IF response \in {LlmRaises, ResponseFalsy, ResponseWithoutContent}
           THEN faqs = Absent
           ELSE IF \A n \in 1..Len(response) : response[n] = Prose
           THEN faqs = <<<<>>>>
           ELSE faqs = <<C13_ParsedOf(SelectSeq(response, LAMBDA seg : seg # Prose))>>

\* extract_faqs called on its own: the first candidate parses, the second
\* does not, and the list holds the first
C13_Witness ==
    /\ at = "returned" /\ entry = "extract_faqs"
    /\ Len(FindAll(response)) = 2
    /\ Parses(FindAll(response)[1]) /\ ~Parses(FindAll(response)[2])
    /\ faqs = <<<<JsonLoads(FindAll(response)[1])>>>>

\* C14 (as claimed): a run of the Streamlit script starts an extraction only
\* when 'Extract FAQs' was clicked and the URLs and both keys are given; and a
\* run in which the click starts none because the URLs or a key are missing
\* or empty shows the warning 'Please provide all required inputs'.
C14_ExtractionNeedsInputsElseWarning ==
    /\ started
          => /\ button = "extract"
             /\ input_urls # UrlsNone /\ input_urls.list # <<>>
             /\ firecrawl_api_key # EmptyStr /\ google_api_key # EmptyStr
    /\ (/\ button = "extract"
        /\ ~started
        /\ \/ input_urls = UrlsNone
           \/ input_urls.list = <<>>
           \/ firecrawl_api_key = EmptyStr
           \/ google_api_key = EmptyStr)
          => warning

\* C19 (as claimed): when a click on 'Upload to GCP' uploads, the file named
\* by the filename input, with '.csv' at its end, exists on disk, the object
\* is 'faq_extracts/<filename>', and what is uploaded is the results table the
\* session holds at that moment.
C19_UploadIsCurrentResults ==
    (button = "upload" /\ uploaded)
        => LET name == bucket[1].name
           IN /\ name[1] = "faq_extracts/"
              /\ name[Len(name)] = CsvSuffix
              /\ Tail(name) \in FileNames
              /\ Tail(name) \in {custom_filename, custom_filename \o <<CsvSuffix>>}
              /\ files[Tail(name)] # Absent
              /\ bucket[1].content = results_df

\* C15: process_single_url never raises: a call in which the crawl, the LLM
\* call or the parsing of a candidate raised ends by returning {}; so
\* extract_faqs on a list calls it on every element of the truncated list,
\* and a failure on one URL does not keep the later ones from being processed.
C15_FailureEndsCallNotRun ==
    /\ pc # "raised"
    /\ (CallOver /\ Range(log) \cap {"crawl_error", "llm_error", "parse_error"} # {})
          => ret = {}
    /\ (kind = "list" /\ pc \in {"returned", "done"}) => calls = urls
    /\ (kind = "list" /\ pc \notin {"idle", "returned", "done"})
          => i = Len(calls) /\ calls = SubSeq(urls, 1, i)

\* a list of two URLs: the call on the first failed on the LLM call, the
\* response or its first candidate and stored nothing, the second stored rows
C15_Witness ==
    /\ kind = "list" /\ pc = "returned" /\ Len(calls) = 2
    /\ calls[1] # calls[2]
    /\ calls[1] \notin Range(data_dict.URL)
    /\ calls[1] \notin Range(notcollected)
    /\ calls[2] \in Range(data_dict.URL)

\* C16 (as claimed): process_single_url(url) returns a non-empty dictionary
\* exactly when the table holds a row for url as the call returns; a call
\* that returns {} after an error leaves no row for url, so that the URL is
\* crawled again when it is submitted again.
C16_NonEmptyIffRowStored ==
    CallOver => (ret # {} <=> url \in Range(data_dict.URL))

\* every column of new starts with the column of old
IsPrefixTable(old, new) ==
    \A c \in ColumnNames :
        /\ Len(old[c]) <= Len(new[c])
        /\ SubSeq(new[c], 1, Len(old[c])) = old[c]

\* C17: over the calls of extract_faqs, process_single_url, _get_url_data and
\* save_to_csv on one extractor the table only grows at its end: no step
\* removes, moves or changes a stored row, so the table extract_faqs returns
\* (data_dict itself) holds the rows of every earlier call; a step that
\* writes the CSV file or delivers the result of _get_url_data leaves
\* data_dict and notcollected as they were.
C17_TableAppendOnly ==
    [][/\ IsPrefixTable(data_dict, data_dict')
       /\ files' # files => UNCHANGED extractor
       /\ (pc' = "idle" \/ (ret' # ret /\ ret' # {})) => UNCHANGED extractor]_vars

\* a file saved from an earlier state of the table, rows of a second URL
\* stored since, and _get_url_data called on its own
C17_Witness ==
    /\ pc = "idle" /\ ret # {}
    /\ files[SaveToCsvDefault] # Absent
    /\ Len(files[SaveToCsvDefault][1].URL) >= 1
    /\ Len(files[SaveToCsvDefault][1].URL) < Len(data_dict.URL)
    /\ Cardinality(Range(data_dict.URL)) = 2

\* the value a parsed candidate gives to field f of its row
C18_FieldOf(text, f) ==
    IF f \in DOMAIN JsonLoads(text) THEN JsonLoads(text)[f] ELSE NotAvailable

\* after a call whose candidates all parsed: its rows are the last ones of the
\* table, one per candidate, in response order, and no other row has its URL
C18_CallRows ==
    (CallOver /\ "extract" \in Range(log)
        /\ \A n \in 1..Len(json_obj) : Parses(json_obj[n]))
       => LET base == Len(data_dict.URL) - Len(json_obj)
          IN /\ base >= 0
             /\ Count(data_dict.URL, url) = Len(json_obj)
             /\ \A n \in 1..Len(json_obj) :
                   /\ data_dict.URL[base + n] = url
                   /\ \A f \in Range(FieldNames) :
                         data_dict[f][base + n] = C18_FieldOf(json_obj[n], f)

\* C18: a process_single_url call whose candidates all parse stores exactly
\* one row per candidate, in response order; and over an extract_faqs call on
\* a list the rows of an earlier element of the list come before the rows of
\* a later one: every row is put at the end of the table, for the element the
\* loop stands at, and the loop never steps back.
C18_RowsInResponseAndListOrder ==
    [][/\ C18_CallRows'
       /\ (kind = "list" /\ pc \notin {"idle", "returned", "done"})
             => /\ i' >= i
                /\ data_dict' # data_dict
                      => /\ i >= 1
                         /\ data_dict'.URL = Append(data_dict.URL, urls[i])
                         /\ \A c \in ColumnNames :
                               SubSeq(data_dict'[c], 1, Len(data_dict[c])) = data_dict[c]]_vars

\* a list of two URLs on a new extractor: two rows of the first, then a row
\* of the second
C18_Witness ==
    /\ kind = "list" /\ pc = "returned" /\ used = Len(urls) /\ Len(urls) = 2
    /\ data_dict.URL = <<urls[1], urls[1], urls[2]>>
    /\ urls[1] # urls[2]
    /\ data_dict.question[1] # data_dict.question[2]

====
